---- MODULE Spec2Model ----
(***************************************************************************)
(* TradeWise stock-analysis dashboard: the window filter, the indicator    *)
(* functions, the alert evaluation, the sentiment scorer, the news         *)
(* fallback chain and the cached history fetch, as a state machine of the  *)
(* Streamlit script src/StockAnalysis.py and of src/utils/plotly_figure.py.*)
(*                                                                         *)
(* A DataFrame is a sequence of rows (records); a calendar date is a       *)
(* triple <<year, month, day>>; a price is an integer number of cents; a   *)
(* text is a sequence of one-character strings.                            *)
(***************************************************************************)
EXTENDS Integers, Sequences, FiniteSets, TLC

VARIABLES
    \* ---- the render cycle (src/StockAnalysis.py, top to bottom) ----
    pc,            \* position of the script run
    clock,         \* seconds since the process started
    cache,         \* st.cache_data store of fetch_and_cache_history
    calls,         \* provider calls made so far: <<key, time>>
    ticker,        \* sidebar: ticker symbol
    range,         \* sidebar: <<start_date, end_date>>
    indicator,     \* sidebar: selected indicator
    ma_period,     \* sidebar: SMA period
    quick,         \* sidebar: Quick Range label
    price_alert,   \* sidebar: price threshold (cents)
    rsi_alert,     \* sidebar: RSI threshold
    use_newsapi,   \* sidebar: NewsAPI checkbox
    info,          \* company info mapping
    hist,          \* fetched history
    last_close,    \* hist['Close'].iloc[-1]
    price_chart,   \* rows plotted by the price chart
    ind_chart,     \* rows plotted by the indicator chart
    current_rsi,   \* RSI value read by the alert evaluation
    triggered,     \* alert messages
    resp,          \* what the NewsAPI request did
    headlines,     \* news items to display
    rows,          \* news rows with sentiment
    out,           \* what was handed to the render sink, in order
    \* ---- filter_data applied to an arbitrary series ----
    f_pc, f_series, f_period, f_result,
    \* ---- sentiment_and_score applied to an arbitrary text ----
    s_pc, s_text, s_result

renderVars == <<pc, clock, cache, calls, ticker, range, indicator, ma_period, quick,
                price_alert, rsi_alert, use_newsapi, info, hist, last_close,
                price_chart, ind_chart, current_rsi, triggered, resp, headlines, rows, out>>
filterVars == <<f_pc, f_series, f_period, f_result>>
sentVars   == <<s_pc, s_text, s_result>>
vars       == <<renderVars, filterVars, sentVars>>

(***************************************************************************)
(* Calendar dates: datetime / dateutil.relativedelta arithmetic.           *)
(***************************************************************************)
Min(a, b) == IF a <= b THEN a ELSE b

\* A function over 1..n as the sequence of its values.
AsSeq(f) == SubSeq(f, 1, Len(f))

IsLeap(y) == (y % 4 = 0 /\ y % 100 # 0) \/ y % 400 = 0

DaysInMonth(y, m) ==
    IF m = 2 THEN (IF IsLeap(y) THEN 29 ELSE 28)
    ELSE IF m \in {4, 6, 9, 11} THEN 30 ELSE 31

\* Timestamp comparison d1 > d2.
DateGT(d1, d2) ==
    \/ d1[1] > d2[1]
    \/ d1[1] = d2[1] /\ d1[2] > d2[2]
    \/ d1[1] = d2[1] /\ d1[2] = d2[2] /\ d1[3] > d2[3]

PrevDay(d) ==
    IF d[3] > 1 THEN <<d[1], d[2], d[3] - 1>>
    ELSE IF d[2] > 1 THEN <<d[1], d[2] - 1, DaysInMonth(d[1], d[2] - 1)>>
    ELSE <<d[1] - 1, 12, 31>>

RECURSIVE MinusDays(_, _)
MinusDays(d, n) == IF n = 0 THEN d ELSE MinusDays(PrevDay(d), n - 1)

\* dt - relativedelta(years, months, days): the year and month move first (the
\* month wraps into the year), the day is clamped to the target month's length,
\* and the days are subtracted last.
RelSub(dt, years, months, days) ==
    LET y0 == dt[1] - years
        m0 == dt[2] - months
        y1 == IF m0 < 1 THEN y0 - 1 ELSE y0
        m1 == IF m0 < 1 THEN m0 + 12 ELSE m0
        d1 == Min(DaysInMonth(y1, m1), dt[3])
    IN  MinusDays(<<y1, m1, d1>>, days)

(***************************************************************************)
(* filter_data (plotly_figure.py 84-106).                                  *)
(***************************************************************************)
Cutoff(df, num_period) ==
    LET latest == df[Len(df)].Date
    IN  IF num_period = "1mo" THEN RelSub(latest, 0, 1, 0)
        ELSE IF num_period = "5d" THEN RelSub(latest, 0, 0, 5)
        ELSE IF num_period = "6mo" THEN RelSub(latest, 0, 6, 0)
        ELSE IF num_period = "1y" THEN RelSub(latest, 1, 0, 0)
        ELSE IF num_period = "5y" THEN RelSub(latest, 5, 0, 0)
        ELSE IF num_period = "ytd" THEN <<latest[1], 1, 1>>
        ELSE IF num_period = "max" \/ num_period = "" THEN df[1].Date
        ELSE df[1].Date

\* The mask df['Date'] >= cutoff instead of df['Date'] > cutoff.
filter_data_ge(dataframe, num_period) ==
    LET cutoff == Cutoff(dataframe, num_period)
        Keep(row) == DateGT(row.Date, cutoff) \/ row.Date = cutoff
    IN  SelectSeq(dataframe, Keep)

filter_data(dataframe, num_period) ==
    LET cutoff == Cutoff(dataframe, num_period)
        Keep(row) == DateGT(row.Date, cutoff)
    IN  SelectSeq(dataframe, Keep)

(***************************************************************************)
(* Derived values.  A cell of a derived column is Python None (the         *)
(* indicator returned nothing and the column was filled with None), NaN    *)
(* (not enough lookback), or a number num/den.  The smoothed averages are  *)
(* kept in fixed point with FP units per cent.                             *)
(***************************************************************************)
FP == 100

NoneCell == [k |-> "none", num |-> 0, den |-> 1]
NaNCell  == [k |-> "nan",  num |-> 0, den |-> 1]
Num(n, d) == [k |-> "num", num |-> n, den |-> d]

Defined(c) == c.k = "num"

\* c <= t for a cell c and an integer t: a comparison with NaN is False.
CellLE(c, t) == c.k = "num" /\ c.num <= t * c.den

CloseCol(df) == AsSeq([i \in 1..Len(df) |-> df[i].Close])

\* close.diff(1), split into up-moves and down-moves; position 1 has no diff.
Gains(close) ==
    AsSeq([i \in 1..Len(close) |->
             IF i > 1 /\ close[i] > close[i-1] THEN close[i] - close[i-1] ELSE 0])
Losses(close) ==
    AsSeq([i \in 1..Len(close) |->
             IF i > 1 /\ close[i] < close[i-1] THEN close[i-1] - close[i] ELSE 0])

\* pandas_ta.rma: ewm(alpha = 1/length, adjust=True).mean().  The numerators at
\* positions 1..i; positive_avg and negative_avg share the denominator, which
\* cancels in the RSI.
RECURSIVE rma(_, _, _)
rma(moves, length, i) ==
    IF i = 0 THEN <<>>
    ELSE LET before == rma(moves, length, i - 1)
             carry  == IF i = 1 THEN 0 ELSE ((length - 1) * before[i - 1]) \div length
         IN  Append(before, moves[i] * FP + carry)

\* pandas_ta.rsi(close, length): nothing (None) for fewer than `length` values;
\* otherwise NaN until `length` diffs exist (min_periods), NaN for 0/0, and
\* 100 * positive_avg / (positive_avg + |negative_avg|).
pta_rsi(close, length) ==
    IF Len(close) < length THEN [k |-> "none", col |-> <<>>]
    ELSE LET positive_avg == rma(Gains(close), length, Len(close))
             negative_avg == rma(Losses(close), length, Len(close))
         IN  [k |-> "series",
              col |-> AsSeq([i \in 1..Len(close) |->
                         IF i <= length \/ positive_avg[i] + negative_avg[i] = 0
                         THEN NaNCell
                         ELSE Num(100 * positive_avg[i],
                                  positive_avg[i] + negative_avg[i])])]

RECURSIVE SumClose(_, _, _)
SumClose(close, from, to) ==
    IF from > to THEN 0 ELSE close[from] + SumClose(close, from + 1, to)

\* pandas_ta.sma(close, length): nothing for fewer than `length` values; otherwise
\* NaN for the first length-1 positions and the window mean after.
pta_sma(close, length) ==
    IF Len(close) < length THEN [k |-> "none", col |-> <<>>]
    ELSE [k |-> "series",
          col |-> AsSeq([i \in 1..Len(close) |->
                     IF i < length THEN NaNCell
                     ELSE Num(SumClose(close, i - length + 1, i), length)])]

\* pandas_ta.ema(x, length) over the positions first..Len(x) of x (fixed-point
\* integers): seeded with the mean of the first `length` values, then
\* alpha = 2/(length+1).  Positions before the seed are undefined (FALSE).
RECURSIVE EmaAt(_, _, _, _)
EmaAt(x, first, length, i) ==
    IF i = first + length - 1 THEN SumClose(x, first, i) \div length
    ELSE (2 * x[i] + (length - 1) * EmaAt(x, first, length, i - 1)) \div (length + 1)

\* pandas_ta.macd's defaults, which the call leaves in place: fast, slow, signal.
MACD_FAST == 12
MACD_SLOW == 26
MACD_SIGNAL == 9

\* pandas_ta.macd(close): nothing for fewer than 26 values; an exception when the
\* MACD line has fewer than 9 values (its signal EMA is nothing, and macd - None
\* raises); otherwise the three columns MACD, histogram, signal.
pta_macd(close) ==
    LET n == Len(close)
        x == AsSeq([i \in 1..n |-> close[i] * FP])
        line == AsSeq([i \in 1..n |->
                   IF i < MACD_SLOW THEN 0
                   ELSE EmaAt(x, 1, MACD_FAST, i) - EmaAt(x, 1, MACD_SLOW, i)])
        sigFirst == MACD_SLOW + MACD_SIGNAL - 1
    IN  IF n < MACD_SLOW THEN [k |-> "none", macd |-> <<>>, hist |-> <<>>, signal |-> <<>>]
        ELSE IF n - MACD_SLOW + 1 < MACD_SIGNAL
             THEN [k |-> "raise", macd |-> <<>>, hist |-> <<>>, signal |-> <<>>]
        ELSE [k |-> "frame",
              macd   |-> [i \in 1..n |-> IF i < MACD_SLOW THEN NaNCell ELSE Num(line[i], FP)],
              signal |-> [i \in 1..n |-> IF i < sigFirst THEN NaNCell
                                         ELSE Num(EmaAt(line, MACD_SLOW, MACD_SIGNAL, i), FP)],
              hist   |-> [i \in 1..n |-> IF i < sigFirst THEN NaNCell
                                         ELSE Num(line[i] - EmaAt(line, MACD_SLOW, MACD_SIGNAL, i), FP)]]

RSI_LENGTH == 14

\* df['RSI'] = pta.rsi(df['Close'], length=14): assigning None fills the column
\* with None.
RSI_column(df) ==
    LET r == pta_rsi(CloseCol(df), RSI_LENGTH)
    IN  AsSeq([i \in 1..Len(df) |-> IF r.k = "none" THEN NoneCell ELSE r.col[i]])

\* RSI(dataframe, num_period, return_series=True): the whole column.
RSI_series(dataframe) == RSI_column(dataframe)

\* RSI(dataframe, num_period): the rows the trace plots (Date against RSI).
RSI(dataframe, num_period) ==
    LET col == RSI_column(dataframe)
        df  == [i \in 1..Len(dataframe) |->
                  [Date |-> dataframe[i].Date, Close |-> dataframe[i].Close, v |-> col[i]]]
    IN  [k |-> "fig", rows |-> filter_data(df, num_period)]

\* Moving_average(dataframe, num_period, ma_period): Close and SMA traces.
Moving_average(dataframe, num_period, period) ==
    LET r   == pta_sma(CloseCol(dataframe), period)
        df  == [i \in 1..Len(dataframe) |->
                  [Date |-> dataframe[i].Date, Close |-> dataframe[i].Close,
                   v |-> IF r.k = "none" THEN NoneCell ELSE r.col[i]]]
    IN  [k |-> "fig", rows |-> filter_data(df, num_period)]

\* MACD(dataframe, num_period): macd.columns on nothing raises AttributeError, and
\* an exception inside pandas_ta.macd propagates; neither is caught.
MACD(dataframe, num_period) ==
    LET m  == pta_macd(CloseCol(dataframe))
        df == [i \in 1..Len(dataframe) |->
                 [Date |-> dataframe[i].Date, Close |-> dataframe[i].Close,
                  v |-> m.macd[i], Signal |-> m.signal[i], Hist |-> m.hist[i]]]
    IN  IF m.k # "frame" THEN [k |-> "raise", rows |-> <<>>]
        ELSE [k |-> "fig", rows |-> filter_data(df, num_period)]

\* candlestick / close_chart: the rows of the windowed frame.
price_figure(dataframe, num_period) == filter_data(dataframe, num_period)

(***************************************************************************)
(* sentiment_and_score (StockAnalysis.py 209-222).                         *)
(***************************************************************************)
UPPERCASE == <<"A", "B", "C", "D", "E", "F", "G", "H", "I", "J", "K", "L", "M", "N", "O", "P", "Q", "R", "S", "T", "U", "V", "W", "X", "Y", "Z">>
LOWERCASE == <<"a", "b", "c", "d", "e", "f", "g", "h", "i", "j", "k", "l", "m", "n", "o", "p", "q", "r", "s", "t", "u", "v", "w", "x", "y", "z">>

UpperSet == {UPPERCASE[i] : i \in 1..Len(UPPERCASE)}

\* str.lower(), one character at a time.
LowerChar(c) ==
    IF c \in UpperSet
    THEN LOWERCASE[CHOOSE i \in 1..Len(UPPERCASE) : UPPERCASE[i] = c]
    ELSE c

lower(t) == AsSeq([i \in 1..Len(t) |-> LowerChar(t[i])])

\* Python's `w in t` for strings: w occurs in t as a contiguous substring.
Contains(t, w) ==
    \E i \in 0..(Len(t) - Len(w)) : \A j \in 1..Len(w) : t[i + j] = w[j]

\* The two set literals; "loss" is written twice in neg_words and a set holds it once.
pos_words ==
    { <<"g", "a", "i", "n">>,
      <<"b", "e", "a", "t">>,
      <<"u", "p">>,
      <<"s", "t", "r", "o", "n", "g">>,
      <<"p", "o", "s", "i", "t", "i", "v", "e">>,
      <<"r", "e", "c", "o", "r", "d">>,
      <<"s", "u", "r", "g", "e">>,
      <<"g", "r", "o", "w", "t", "h">>,
      <<"r", "a", "i", "s", "e">>,
      <<"o", "u", "t", "p", "e", "r", "f", "o", "r", "m">>,
      <<"u", "p", "g", "r", "a", "d", "e">>,
      <<"p", "r", "o", "f", "i", "t">> }
neg_words ==
    { <<"d", "r", "o", "p">>,
      <<"f", "a", "l", "l">>,
      <<"l", "o", "s", "s">>,
      <<"m", "i", "s", "s">>,
      <<"d", "o", "w", "n">>,
      <<"w", "e", "a", "k">>,
      <<"d", "e", "c", "l", "i", "n", "e">>,
      <<"w", "a", "r", "n", "i", "n", "g">>,
      <<"c", "u", "t">>,
      <<"r", "e", "c", "a", "l", "l">>,
      <<"l", "a", "w", "s", "u", "i", "t">>,
      <<"d", "o", "w", "n", "g", "r", "a", "d", "e">>,
      <<"l", "o", "s", "s">> }

\* The literal of neg_words as written, element by element.
neg_words_literal ==
    << <<"d", "r", "o", "p">>,
       <<"f", "a", "l", "l">>,
       <<"l", "o", "s", "s">>,
       <<"m", "i", "s", "s">>,
       <<"d", "o", "w", "n">>,
       <<"w", "e", "a", "k">>,
       <<"d", "e", "c", "l", "i", "n", "e">>,
       <<"w", "a", "r", "n", "i", "n", "g">>,
       <<"c", "u", "t">>,
       <<"r", "e", "c", "a", "l", "l">>,
       <<"l", "a", "w", "s", "u", "i", "t">>,
       <<"d", "o", "w", "n", "g", "r", "a", "d", "e">>,
       <<"l", "o", "s", "s">> >>

NoneText == [k |-> "none", s |-> <<>>]
Str(chars) == [k |-> "str", s |-> chars]

Label(score) == IF score > 0 THEN "Positive" ELSE IF score < 0 THEN "Negative" ELSE "Neutral"

\* neg_words kept as a list: the repeated "loss" is counted twice.
sentiment_and_score_list(text) ==
    LET t   == lower(IF text.k = "none" THEN <<>> ELSE text.s)
        pos == Cardinality({w \in pos_words : Contains(t, w)})
        neg == Cardinality({i \in 1..Len(neg_words_literal) : Contains(t, neg_words_literal[i])})
    IN  [label |-> Label(pos - neg), score |-> pos - neg]

sentiment_and_score(text) ==
    LET t     == lower(IF text.k = "none" THEN <<>> ELSE text.s)
        pos   == Cardinality({w \in pos_words : Contains(t, w)})
        neg   == Cardinality({w \in neg_words : Contains(t, w)})
        score == pos - neg
    IN  [label |-> Label(score), score |-> score]

(***************************************************************************)
(* The environment of one process: the calendar, the market-data provider, *)
(* the company-info provider and the news provider.                        *)
(***************************************************************************)
today == <<2024, 4, 1>>
default_start == <<today[1] - 1, today[2], today[3]>>

CACHE_TTL == 3600

\* Seconds that pass between two renders, and the horizon of the model.
TickSeconds == 1800
MaxClock == 7200

\* A daily series of n bars ending on `last`; Close in cents.
ShapeClose(shape, i, n) ==
    IF shape = "up" THEN 25000 - (n - i) * 100
    ELSE IF shape = "down" THEN 15000 + (n - i) * 100
    ELSE IF shape = "zig" THEN 20000 + (IF i % 2 = 0 THEN 150 ELSE 0)
    ELSE 20000

MkSeries(n, last, shape) ==
    [i \in 1..n |-> [Date |-> MinusDays(last, n - i), Close |-> ShapeClose(shape, i, n), na |-> FALSE]]

\* What t.history(start, end) can do: raise, return None, return a frame.
Raises   == [k |-> "raise", rows |-> <<>>]
NoFrame  == [k |-> "none",  rows |-> <<>>]
Frame(r) == [k |-> "df",    rows |-> r]

HistoryMenu ==
    { Raises, NoFrame, Frame(<<>>),
      Frame(<<[Date |-> <<2024, 3, 28>>, Close |-> 0, na |-> TRUE]>>),
      Frame(MkSeries(1,  <<2024, 3, 28>>, "up")),
      Frame(MkSeries(14, <<2024, 3, 28>>, "up")),
      Frame(MkSeries(15, <<2024, 1, 1>>,  "up")),
      Frame(MkSeries(16, <<2024, 3, 31>>, "down")),
      Frame(MkSeries(20, <<2024, 2, 29>>, "flat")),
      Frame(MkSeries(34, <<2024, 3, 31>>, "zig")) }

HistoryMenuSmall == { Raises, Frame(<<>>), Frame(MkSeries(2, <<2024, 3, 28>>, "up")) }

Filler(n) == [i \in 1..n |-> "a"]

NO_SUMMARY == <<"N", "o", " ", "s", "u", "m", "m", "a", "r", "y", " ", "a", "v", "a", "i", "l", "a", "b", "l", "e", " ", "f", "o", "r", " ", "t", "h", "i", "s", " ", "t", "i", "c", "k", "e", "r", ".">>
ShortSummary == <<"M", "a", "k", "e", "r", " ", "o", "f", " ", "t", "h", "i", "n", "g", "s", ".">>
LongSummary == <<"s", "t", "r", "o", "n", "g", " ", "g", "r", "o", "w", "t", "h", " ">> \o Filler(886)

InfoNewsItem(i) ==
    [title |-> Str(IF i % 2 = 0 THEN <<"S", "h", "a", "r", "e", "s", " ", "s", "u", "r", "g", "e">> ELSE <<"P", "r", "o", "f", "i", "t", " ", "w", "a", "r", "n", "i", "n", "g">>), summary |-> <<"d", "e", "t", "a", "i", "l", "s">>]

\* ticker_obj.info: {} when the call raises or returns nothing.
EmptyInfo == [has_summary |-> FALSE, longBusinessSummary |-> <<>>, news |-> <<>>]

InfoMenu ==
    { EmptyInfo,
      [has_summary |-> TRUE, longBusinessSummary |-> LongSummary, news |-> <<>>],
      [has_summary |-> TRUE, longBusinessSummary |-> ShortSummary,
       news |-> [i \in 1..7 |-> InfoNewsItem(i)]] }

\* NewsAPI articles: title and source may be null in a malformed payload.
Article(t, src) ==
    [title |-> t, description |-> NoneText, content |-> Str(<<"b", "o", "d", "y">>), source |-> src]
GoodArticle == Article(Str(<<"S", "t", "o", "c", "k", " ", "u", "p">>), "dict")
NullSource  == Article(Str(<<"L", "a", "w", "s", "u", "i", "t">>), "null")
NullTitle   == Article(NoneText, "dict")

NewsMenu ==
    { [k |-> "timeout",    articles |-> <<>>],
      [k |-> "bad_status", articles |-> <<>>],
      [k |-> "bad_json",   articles |-> <<>>],
      [k |-> "ok",         articles |-> <<>>],
      [k |-> "ok",         articles |-> [i \in 1..7 |-> GoodArticle]],
      [k |-> "ok",         articles |-> <<GoodArticle, NullSource, GoodArticle>>],
      [k |-> "ok",         articles |-> <<NullSource>>],
      [k |-> "ok",         articles |-> <<GoodArticle, NullTitle>>] }

NewsMenuSmall == { [k |-> "timeout", articles |-> <<>>] }

TickerChars(t) == IF t = "TSLA" THEN <<"T", "S", "L", "A">> ELSE <<"B", "T", "C", "-", "U", "S", "D">>

(***************************************************************************)
(* The render cycle: one run of src/StockAnalysis.py from top to bottom.   *)
(***************************************************************************)
QuickLabels == {"Custom", "5D", "1M", "6M", "YTD", "1Y", "5Y", "MAX"}

\* quick_map.get(quick, "")
quick_map(q) ==
    IF q = "5D" THEN "5d" ELSE IF q = "1M" THEN "1mo" ELSE IF q = "6M" THEN "6mo"
    ELSE IF q = "YTD" THEN "ytd" ELSE IF q = "1Y" THEN "1y" ELSE IF q = "5Y" THEN "5y"
    ELSE IF q = "MAX" THEN "max" ELSE ""

num_period == quick_map(quick)

\* plot_period = num_period if num_period != "" else "1y"
plot_period == IF num_period # "" THEN num_period ELSE "1y"

NoHist == [k |-> "unset", rows |-> <<>>]
NoCell == [k |-> "unset", num |-> 0, den |-> 1]
NoEntry == [full |-> FALSE, at |-> 0, val |-> NoHist]
NoResp == [k |-> "unset", articles |-> <<>>]

Terminal == {"done", "stopped", "crashed"}

\* A widget interaction after a run ended: Streamlit runs the script again from
\* the top, and nothing the previous run computed is kept; the cache is.
Rerun ==
    /\ pc \in Terminal
    /\ pc' = "start"
    /\ ticker' = "" /\ range' = <<default_start, today>>
    /\ indicator' = "None" /\ ma_period' = 50 /\ quick' = "Custom"
    /\ price_alert' = 0 /\ rsi_alert' = 0 /\ use_newsapi' = TRUE
    /\ info' = EmptyInfo
    /\ hist' = NoHist
    /\ last_close' = 0
    /\ price_chart' = <<>>
    /\ ind_chart' = <<>>
    /\ current_rsi' = NoCell
    /\ triggered' = <<>>
    /\ resp' = NoResp
    /\ headlines' = <<>>
    /\ rows' = <<>>
    /\ out' = <<>>
    /\ UNCHANGED <<clock, cache, calls, filterVars, sentVars>>

\* Lines 41-76: the widgets are read; an inverted date range is reset to the
\* defaults.
Sidebar(tickers, dates, inds, quicks, prices, rsis, newsapis) ==
    /\ pc = "start"
    /\ \E t \in tickers, dr \in dates, ind \in inds, q \in quicks,
          pa \in prices, ra \in rsis, un \in newsapis :
          /\ ticker' = t
          /\ range' = IF ~DateGT(dr[2], dr[1]) THEN <<default_start, today>> ELSE dr
          /\ indicator' = ind[1]
          /\ ma_period' = ind[2]
          /\ quick' = q
          /\ price_alert' = pa
          /\ rsi_alert' = ra
          /\ use_newsapi' = un
    /\ pc' = "info"
    /\ UNCHANGED <<clock, cache, calls, info, hist, last_close, price_chart, ind_chart,
                   current_rsi, triggered, resp, headlines, rows, out, filterVars, sentVars>>

DateChoices == { <<default_start, today>>, <<today, today>> }
\* st.slider gives ma_period only for "Moving Average"; otherwise it is 50.
IndicatorChoices == { <<"None", 50>>, <<"RSI", 50>>, <<"MACD", 50>>,
                      <<"Moving Average", 5>>, <<"Moving Average", 50>> }

SidebarAny ==
    Sidebar({"BTC-USD"}, DateChoices, IndicatorChoices, QuickLabels,
            {0, 20000}, {0, 50, 100}, {TRUE, FALSE})

\* The widgets left at their defaults, apart from the ticker.
SidebarDefaults ==
    Sidebar({"TSLA", "BTC-USD"}, DateChoices, {<<"None", 50>>}, {"Custom"},
            {0}, {0}, {TRUE})

\* summary = info.get("longBusinessSummary", "No summary available for this ticker.")
summary == IF info.has_summary THEN info.longBusinessSummary ELSE NO_SUMMARY

\* Lines 81-119: company info, the overview header and the fundamentals tables.
FetchInfo(menu) ==
    /\ pc = "info"
    /\ \E i \in menu : info' = i
    /\ out' = out \o <<"overview", "fundamentals">>
    /\ pc' = "fetch"
    /\ UNCHANGED <<clock, cache, calls, ticker, range, indicator, ma_period, quick,
                   price_alert, rsi_alert, use_newsapi, hist, last_close, price_chart,
                   ind_chart, current_rsi, triggered, resp, headlines, rows,
                   filterVars, sentVars>>

\* The body of fetch_and_cache_history on what the provider did (lines 23-33).
fetch_body(o) ==
    IF o.k = "raise" THEN [k |-> "none", rows |-> <<>>]
    ELSE IF o.k = "none" \/ Len(o.rows) = 0 THEN [k |-> o.k, rows |-> <<>>]
    ELSE LET Kept(r) == ~r.na
             kept == SelectSeq(o.rows, Kept)
         IN  [k |-> "df", rows |-> [i \in 1..Len(kept) |->
                                      [Date |-> kept[i].Date, Close |-> kept[i].Close]]]

CacheKey == <<ticker, range[1], range[2]>>

\* An entry that still answers when it is exactly ttl seconds old.
Live_inclusive(e, now) == e.full /\ now <= e.at + CACHE_TTL

\* st.cache_data(ttl=3600): an entry answers until it is ttl seconds old.
Live(e, now) == e.full /\ now < e.at + CACHE_TTL

\* hist is None, without the test for an empty frame.
NoData_absent_only(h) == h.k = "none"

\* hist is None or hist.empty
NoData(h) == h.k = "none" \/ Len(h.rows) = 0

\* Lines 124-127: the cached fetch; no data ends the run (st.error, st.stop).
FetchHistory(menu) ==
    /\ pc = "fetch"
    /\ IF Live(cache[CacheKey], clock)
       THEN /\ hist' = cache[CacheKey].val
            /\ UNCHANGED <<cache, calls>>
       ELSE \E o \in menu :
            /\ hist' = fetch_body(o)
            /\ cache' = [cache EXCEPT ![CacheKey] =
                            [full |-> TRUE, at |-> clock, val |-> fetch_body(o)]]
            /\ calls' = [calls EXCEPT ![CacheKey] = Append(@, clock)]
    /\ IF NoData(hist')
       THEN /\ out' = Append(out, "error:no data")
            /\ pc' = "stopped"
       ELSE /\ out' = out
            /\ pc' = "metrics"
    /\ UNCHANGED <<clock, ticker, range, indicator, ma_period, quick, price_alert,
                   rsi_alert, use_newsapi, info, last_close, price_chart, ind_chart,
                   current_rsi, triggered, resp, headlines, rows, filterVars, sentVars>>

\* Lines 129-160: the top metrics and the overview tab.
Metrics ==
    /\ pc = "metrics"
    /\ last_close' = hist.rows[Len(hist.rows)].Close
    /\ out' = out \o <<"metrics", "tab_overview">>
    /\ pc' = "charts"
    /\ UNCHANGED <<clock, cache, calls, ticker, range, indicator, ma_period, quick,
                   price_alert, rsi_alert, use_newsapi, info, hist, price_chart,
                   ind_chart, current_rsi, triggered, resp, headlines, rows,
                   filterVars, sentVars>>

\* Lines 162-171: candlestick and close_chart plot the same windowed rows.
Charts ==
    /\ pc = "charts"
    /\ price_chart' = price_figure(hist.rows, plot_period)
    /\ out' = out \o <<"chart:price", "chart:volume">>
    /\ pc' = "indicators"
    /\ UNCHANGED <<clock, cache, calls, ticker, range, indicator, ma_period, quick,
                   price_alert, rsi_alert, use_newsapi, info, hist, last_close,
                   ind_chart, current_rsi, triggered, resp, headlines, rows,
                   filterVars, sentVars>>

IndicatorFigure ==
    IF indicator = "RSI" THEN RSI(hist.rows, plot_period)
    ELSE IF indicator = "MACD" THEN MACD(hist.rows, plot_period)
    ELSE IF indicator = "Moving Average" THEN Moving_average(hist.rows, plot_period, ma_period)
    ELSE [k |-> "info", rows |-> <<>>]

\* Lines 173-182: the selected indicator's chart; an exception ends the run.
Indicators ==
    /\ pc = "indicators"
    /\ LET fig == IndicatorFigure
       IN  IF fig.k = "raise"
           THEN /\ pc' = "crashed"
                /\ UNCHANGED <<ind_chart, out>>
           ELSE /\ ind_chart' = fig.rows
                /\ out' = Append(out, IF fig.k = "info" THEN "info:choose"
                                      ELSE "chart:indicator")
                /\ pc' = "alerts"
    /\ UNCHANGED <<clock, cache, calls, ticker, range, indicator, ma_period, quick,
                   price_alert, rsi_alert, use_newsapi, info, hist, last_close,
                   price_chart, current_rsi, triggered, resp, headlines, rows,
                   filterVars, sentVars>>

PriceMsg == [kind |-> "price", ticker |-> ticker, threshold |-> price_alert,
             price |-> last_close, rsi |-> NoCell]
RsiMsg(c) == [kind |-> "rsi", ticker |-> "", threshold |-> rsi_alert,
              price |-> 0, rsi |-> c]

\* rsi_series.iloc[-1] of RSI(..., return_series=True); None also when that raises.
ReadCurrentRsi(df) == LET col == RSI_series(df) IN col[Len(col)]

\* rsi_alert > 0 and current_rsi is not None and current_rsi <= rsi_alert, without
\* the None test: None <= rsi_alert raises TypeError.
RsiCheck_no_none_test(c, threshold) ==
    IF threshold <= 0 THEN "skip"
    ELSE IF c.k = "none" THEN "raise"
    ELSE IF CellLE(c, threshold) THEN "fire" ELSE "skip"

\* rsi_alert > 0 and current_rsi is not None and current_rsi <= rsi_alert
RsiCheck(c, threshold) ==
    IF threshold <= 0 THEN "skip"
    ELSE IF c.k = "none" THEN "skip"
    ELSE IF CellLE(c, threshold) THEN "fire" ELSE "skip"

\* price_alert > 0 and last_close > price_alert
PriceFires_gt(close, threshold) == threshold > 0 /\ close > threshold

\* price_alert > 0 and last_close >= price_alert
PriceFires(close, threshold) == threshold > 0 /\ close >= threshold

\* Lines 184-204: the alerts and the CSV download.  Nothing around the alert
\* condition catches an exception: one raised there would end the run.
Alerts ==
    /\ pc = "alerts"
    /\ LET c  == ReadCurrentRsi(hist.rows)
           t1 == IF PriceFires(last_close, price_alert) THEN <<PriceMsg>> ELSE <<>>
           ck == RsiCheck(c, rsi_alert)
           t2 == IF ck = "fire" THEN Append(t1, RsiMsg(c)) ELSE t1
       IN  /\ current_rsi' = c
           /\ IF ck = "raise"
              THEN /\ triggered' = t1
                   /\ out' = out
                   /\ pc' = "crashed"
              ELSE /\ triggered' = t2
                   /\ out' = out \o (IF Len(t2) > 0 THEN [i \in 1..Len(t2) |-> "warning"]
                                     ELSE <<"success:no alerts">>) \o <<"download">>
                   /\ pc' = "news"
    /\ UNCHANGED <<clock, cache, calls, ticker, range, indicator, ma_period, quick,
                   price_alert, rsi_alert, use_newsapi, info, hist, last_close,
                   price_chart, ind_chart, resp, headlines, rows, filterVars, sentVars>>

(***************************************************************************)
(* The news tab (lines 206-286).                                           *)
(***************************************************************************)
NEWS_PAGE == 6
INFO_NEWS_MAX == 5
SYNTHETIC_DESC_CHARS == 300

Prefix(n, seq) == SubSeq(seq, 1, Min(n, Len(seq)))

\* it.get("description") or it.get("content") or ""
DescOf(it) ==
    IF it.description.k = "str" /\ Len(it.description.s) > 0 THEN it.description.s
    ELSE IF it.content.k = "str" /\ Len(it.content.s) > 0 THEN it.content.s
    ELSE <<>>

\* The loop over items[:6]: it.get("source", {}).get("name", "") raises on a null
\* source; the except keeps what was appended before.
RECURSIVE ParseArticles(_)
ParseArticles(items) ==
    IF Len(items) = 0 \/ items[1].source = "null" THEN <<>>
    ELSE <<[title |-> items[1].title, desc |-> DescOf(items[1])]>>
         \o ParseArticles(Tail(items))

\* Lines 224-247: the headlines NewsAPI gave.
FromNewsApi(r) ==
    IF r.k = "ok" THEN ParseArticles(Prefix(NEWS_PAGE, r.articles)) ELSE <<>>

\* Lines 249-256: the fallback chain when no headline was collected.
Fallback(hs) ==
    IF Len(hs) > 0 THEN hs
    ELSE IF Len(info.news) > 0
         THEN LET raw == Prefix(INFO_NEWS_MAX, info.news)
              IN  [i \in 1..Len(raw) |-> [title |-> raw[i].title, desc |-> raw[i].summary]]
    ELSE <<[title |-> Str(TickerChars(ticker) \o <<" ", "-", " ", "l", "a", "t", "e", "s", "t", " ", "s", "u", "m", "m", "a", "r", "y">>),
            desc |-> Prefix(SYNTHETIC_DESC_CHARS, summary)]>>

\* Line 261: h.get("title", "") + " " + h.get("desc", "") raises on a null title.
RowOf(h) ==
    LET sc == sentiment_and_score(Str(h.title.s \o <<" ">> \o h.desc))
    IN  [headline |-> h.title.s, sentiment |-> sc.label, score |-> sc.score]

News(menu) ==
    /\ pc = "news"
    /\ \E r \in (IF use_newsapi THEN menu ELSE {[k |-> "off", articles |-> <<>>]}) :
          LET hs == Fallback(FromNewsApi(r))
              page == Prefix(NEWS_PAGE, r.articles)
              note == IF \/ r.k \in {"timeout", "bad_status", "bad_json"}
                         \/ \E i \in 1..Len(page) : page[i].source = "null"
                      THEN <<"info:news fallback">> ELSE <<>>
          IN  /\ resp' = r
              /\ headlines' = hs
              /\ IF \E i \in 1..Len(hs) : hs[i].title.k = "none"
                 THEN /\ rows' = <<>>
                      /\ out' = out \o note
                      /\ pc' = "crashed"
                 ELSE /\ rows' = [i \in 1..Len(hs) |-> RowOf(hs[i])]
                      /\ out' = out \o note \o <<"news_table", "esg", "caption">>
                      /\ pc' = "done"
    /\ UNCHANGED <<clock, cache, calls, ticker, range, indicator, ma_period, quick,
                   price_alert, rsi_alert, use_newsapi, info, hist, last_close,
                   price_chart, ind_chart, current_rsi, triggered, filterVars, sentVars>>

\* Time passes between two renders.
Tick ==
    /\ pc = "start"
    /\ clock + TickSeconds <= MaxClock
    /\ clock' = clock + TickSeconds
    /\ UNCHANGED <<pc, cache, calls, ticker, range, indicator, ma_period, quick,
                   price_alert, rsi_alert, use_newsapi, info, hist, last_close,
                   price_chart, ind_chart, current_rsi, triggered, resp, headlines, rows, out,
                   filterVars, sentVars>>

Keys == { <<t, default_start, today>> : t \in {"TSLA", "BTC-USD"} }

FilterIdle == f_pc = "off" /\ f_series = <<>> /\ f_period = "" /\ f_result = <<>>
SentIdle   == s_pc = "off" /\ s_text = NoneText /\ s_result = [label |-> "", score |-> 0]

RenderInit ==
    /\ pc = "start"
    /\ clock = 0
    /\ cache = [k \in Keys |-> NoEntry]
    /\ calls = [k \in Keys |-> <<>>]
    /\ ticker = "" /\ range = <<default_start, today>>
    /\ indicator = "None" /\ ma_period = 50 /\ quick = "Custom"
    /\ price_alert = 0 /\ rsi_alert = 0 /\ use_newsapi = TRUE
    /\ info = EmptyInfo /\ hist = NoHist /\ last_close = 0
    /\ price_chart = <<>> /\ ind_chart = <<>> /\ current_rsi = NoCell
    /\ triggered = <<>> /\ resp = NoResp /\ headlines = <<>> /\ rows = <<>>
    /\ out = <<>>

Init == RenderInit /\ FilterIdle /\ SentIdle

\* One session inside one hour: every widget setting, every provider answer.
Next ==
    \/ Rerun
    \/ SidebarAny
    \/ FetchInfo(InfoMenu)
    \/ FetchHistory(HistoryMenu)
    \/ Metrics
    \/ Charts
    \/ Indicators
    \/ Alerts
    \/ News(NewsMenu)

Spec == Init /\ [][Next]_vars

\* Renders over several hours and tickers, the other widgets at their defaults.
NextCache ==
    \/ Rerun
    \/ SidebarDefaults
    \/ Tick
    \/ FetchInfo({EmptyInfo})
    \/ FetchHistory(HistoryMenuSmall)
    \/ Metrics
    \/ Charts
    \/ Indicators
    \/ Alerts
    \/ News(NewsMenuSmall)

SpecCache == Init /\ [][NextCache]_vars

(***************************************************************************)
(* filter_data on arbitrary series: strictly increasing dates drawn from   *)
(* DatePool, at most MaxBars bars, every window tag.                       *)
(***************************************************************************)
MaxBars == 4

DatePool ==
    << <<2019, 2, 28>>, <<2019, 3, 31>>, <<2023, 2, 28>>, <<2023, 3, 31>>,
       <<2023, 9, 30>>, <<2024, 1, 1>>,  <<2024, 2, 29>>, <<2024, 3, 1>>,
       <<2024, 3, 26>>, <<2024, 3, 27>>, <<2024, 3, 31>> >>

PeriodTags == {"5d", "1mo", "6mo", "1y", "5y", "ytd", "max", "custom", ""}

SetMax(S) == CHOOSE m \in S : \A x \in S : x <= m

\* The bars at the pool positions S, in date order.
RECURSIVE BuildSeries(_)
BuildSeries(S) ==
    IF S = {} THEN <<>>
    ELSE LET m == SetMax(S)
         IN  Append(BuildSeries(S \ {m}), [Date |-> DatePool[m], Close |-> 10000 + m])

FilterInit ==
    /\ RenderInit /\ SentIdle
    /\ f_pc = "ready"
    /\ \E S \in SUBSET (1..Len(DatePool)) :
          /\ S # {} /\ Cardinality(S) <= MaxBars
          /\ f_series = BuildSeries(S)
    /\ f_period \in PeriodTags
    /\ f_result = <<>>

ApplyFilter ==
    /\ f_pc = "ready"
    /\ f_result' = filter_data(f_series, f_period)
    /\ f_pc' = "filtered"
    /\ UNCHANGED <<f_series, f_period, renderVars, sentVars>>

NextFilter == ApplyFilter

SpecFilter == FilterInit /\ [][NextFilter]_vars

(***************************************************************************)
(* sentiment_and_score on arbitrary texts: absent, or up to MaxTokens      *)
(* tokens of TokenPool run together.                                       *)
(***************************************************************************)
MaxTokens == 2

TokenPool ==
    << <<"s", "t", "r", "o", "n", "g", " ">>,
       <<"g", "r", "o", "w", "t", "h">>,
       <<"r", "e", "c", "a", "l", "l", " ">>,
       <<"l", "a", "w", "s", "u", "i", "t">>,
       <<"t", "h", "e", " ", "s", "t", "o", "c", "k", " ", "m", "o", "v", "e", "d">>,
       <<"U", "P", "G", "R", "A", "D", "E", " ">>,
       <<"L", "o", "s", "s">>,
       <<"D", "o", "w", "n", "g", "r", "a", "d", "e", " ">> >>

RECURSIVE TextsOf(_)
TextsOf(n) ==
    IF n = 0 THEN {<<>>}
    ELSE TextsOf(n - 1) \cup
         {t \o TokenPool[i] : t \in TextsOf(n - 1), i \in 1..Len(TokenPool)}

NoResult == [label |-> "", score |-> 0]

SentInit ==
    /\ RenderInit /\ FilterIdle
    /\ s_pc = "ready"
    /\ s_text \in {NoneText} \cup {Str(t) : t \in TextsOf(MaxTokens)}
    /\ s_result = NoResult

Score ==
    /\ s_pc = "ready"
    /\ s_result' = sentiment_and_score(s_text)
    /\ s_pc' = "scored"
    /\ UNCHANGED <<s_text, renderVars, filterVars>>

NextSent == Score

SpecSent == SentInit /\ [][NextSent]_vars

(***************************************************************************)
(* Claims.                                                                 *)
(***************************************************************************)
WindowTags == {"5d", "1mo", "6mo", "1y", "5y", "ytd"}

\* A date as one number, and as a count of days (proleptic Gregorian ordinal).
DateKey(d) == d[1] * 10000 + d[2] * 100 + d[3]

RECURSIVE DaysBeforeMonth(_, _)
DaysBeforeMonth(y, m) ==
    IF m = 1 THEN 0 ELSE DaysBeforeMonth(y, m - 1) + DaysInMonth(y, m - 1)

Ordinal(d) ==
    LET y == d[1] - 1
    IN  365 * y + (y \div 4) - (y \div 100) + (y \div 400) + DaysBeforeMonth(d[1], d[2]) + d[3]

\* The date k calendar months before `latest`: the month count goes back by k and
\* the day of the month is kept, or is the last day of a shorter month.
MonthsBack(latest, k) ==
    LET total == latest[1] * 12 + (latest[2] - 1) - k
        y == total \div 12
        m == (total % 12) + 1
    IN  <<y, m, IF latest[3] <= DaysInMonth(y, m) THEN latest[3] ELSE DaysInMonth(y, m)>>

\* Bar date d lies strictly after the cutoff of window `tag` anchored at `latest`.
AfterCutoff(tag, latest, d) ==
    IF tag = "5d" THEN Ordinal(d) > Ordinal(latest) - 5
    ELSE IF tag = "1mo" THEN DateKey(d) > DateKey(MonthsBack(latest, 1))
    ELSE IF tag = "6mo" THEN DateKey(d) > DateKey(MonthsBack(latest, 6))
    ELSE IF tag = "1y" THEN DateKey(d) > DateKey(MonthsBack(latest, 12))
    ELSE IF tag = "5y" THEN DateKey(d) > DateKey(MonthsBack(latest, 60))
    ELSE DateKey(d) > latest[1] * 10000 + 101

\* Bar date d is the cutoff itself.
OnCutoff(tag, latest, d) ==
    IF tag = "5d" THEN Ordinal(d) = Ordinal(latest) - 5
    ELSE IF tag = "1mo" THEN d = MonthsBack(latest, 1)
    ELSE IF tag = "6mo" THEN d = MonthsBack(latest, 6)
    ELSE IF tag = "1y" THEN d = MonthsBack(latest, 12)
    ELSE IF tag = "5y" THEN d = MonthsBack(latest, 60)
    ELSE d = <<latest[1], 1, 1>>

LatestOf(series) == series[Len(series)].Date

\* C1: for a non-empty series with strictly increasing dates and a window tag in
\* {5d, 1mo, 6mo, 1y, 5y, ytd}, filter_data returns exactly the bars dated strictly
\* after the cutoff, in their original order; the cutoff is taken from the series'
\* latest date (latest minus 5 days, 1, 6, 12 or 60 calendar months, or January 1
\* of the latest date's year), and a bar dated on the cutoff is excluded.
C1_WindowIsBarsAfterCutoff ==
    (f_pc = "filtered" /\ f_period \in WindowTags) =>
        /\ \A i \in 1..Len(f_series) :
              AfterCutoff(f_period, LatestOf(f_series), f_series[i].Date)
                  <=> (\E j \in 1..Len(f_result) : f_result[j] = f_series[i])
        /\ \A j \in 1..Len(f_result) : \E i \in 1..Len(f_series) : f_result[j] = f_series[i]
        /\ \A j, k \in 1..Len(f_result) :
              j < k => DateKey(f_result[j].Date) < DateKey(f_result[k].Date)

\* C1 witness: a window was applied to a series that has a bar dated exactly on the
\* cutoff, bars before it and bars after it; the result is a proper, non-empty part.
C1_Witness ==
    /\ f_pc = "filtered" /\ f_period \in WindowTags
    /\ \E i \in 1..Len(f_series) : OnCutoff(f_period, LatestOf(f_series), f_series[i].Date)
    /\ Len(f_result) > 0 /\ Len(f_result) < Len(f_series) - 1
    /\ LatestOf(f_series) # today

\* Stage markers read off the page written so far.
Has(item) == \E i \in 1..Len(out) : out[i] = item
ChartsDrawn == Has("chart:price")
IndicatorStageDone == Has("chart:indicator") \/ Has("info:choose")
AlertsEvaluated == Has("download")
LatestClose == hist.rows[Len(hist.rows)].Close
PriceMsgs == {i \in 1..Len(triggered) : triggered[i].kind = "price"}
RsiMsgs == {i \in 1..Len(triggered) : triggered[i].kind = "rsi"}

\* C2: for a fetched non-empty series, the tags max, custom and the empty tag give
\* back the whole series, earliest bar included; and a render with Quick Range
\* 'Custom' or 'MAX' charts that whole series.
C2_MaxCustomEmptyKeepEveryBar ==
    (hist.k = "df" /\ Len(hist.rows) > 0) =>
        /\ \A tag \in {"max", "custom", ""} : filter_data(hist.rows, tag) = hist.rows
        /\ (ChartsDrawn /\ quick \in {"Custom", "MAX"}) => price_chart = hist.rows

\* C3: when a render has evaluated the alerts, there is a price alert message iff
\* the price threshold is above 0 and the latest Close is at or above it; threshold
\* 0 gives none; latest Close 250.00 with threshold 200.00 gives one; the message
\* carries the ticker, the threshold and the latest Close.
C3_PriceAlertIffAtOrAboveThreshold ==
    AlertsEvaluated =>
        /\ (PriceMsgs # {}) <=> (price_alert > 0 /\ LatestClose >= price_alert)
        /\ price_alert = 0 => PriceMsgs = {}
        /\ (LatestClose = 25000 /\ price_alert = 20000) => PriceMsgs # {}
        /\ Cardinality(PriceMsgs) <= 1
        /\ \A i \in PriceMsgs :
              /\ triggered[i].ticker = ticker
              /\ triggered[i].threshold = price_alert
              /\ triggered[i].price = LatestClose

\* C3 witness: latest Close 250.00, threshold 200.00, and the price alert is shown.
C3_Witness ==
    /\ AlertsEvaluated /\ pc = "done"
    /\ LatestClose = 25000 /\ price_alert = 20000
    /\ PriceMsgs # {}

\* The RSI of the latest bar, from the 14-bar computation over the fetched series.
LatestRsiDefined ==
    LET r == pta_rsi(CloseCol(hist.rows), 14)
    IN  r.k = "series" /\ r.col[Len(r.col)].k = "num"
LatestRsiAtMost(threshold) ==
    LET r == pta_rsi(CloseCol(hist.rows), 14)
        c == r.col[Len(r.col)]
    IN  c.num <= threshold * c.den

\* C4: there is an RSI alert message iff the RSI threshold is above 0, the latest
\* RSI is defined and it is at or below the threshold; with an undefined latest RSI
\* (absent result or undefined last element) no RSI alert is produced for any
\* threshold, and the alert stage never raises: a run that finished the indicator
\* stage and left the alert stage has written the alert stage's output and went on.
C4_RsiAlertIffDefinedAndAtOrBelow ==
    /\ AlertsEvaluated =>
          /\ (RsiMsgs # {}) <=>
                (rsi_alert > 0 /\ LatestRsiDefined /\ LatestRsiAtMost(rsi_alert))
          /\ ~LatestRsiDefined => RsiMsgs = {}
          /\ \A i \in RsiMsgs : triggered[i].threshold = rsi_alert
    /\ (IndicatorStageDone /\ pc # "alerts") => AlertsEvaluated

\* C4 witness: fewer than 14 bars, an RSI threshold set, the indicator gave nothing,
\* no RSI alert, and the render ran to its end.
C4_Witness ==
    /\ pc = "done" /\ AlertsEvaluated
    /\ rsi_alert > 0 /\ Len(hist.rows) < 14
    /\ current_rsi.k = "none" /\ RsiMsgs = {}

\* The positions of the RSI chart that carry a defined value.
ChartedDefined == {i \in 1..Len(ind_chart) : ind_chart[i].v.k = "num"}

\* C5: in a render that drew the RSI chart and evaluated an enabled RSI alert, the RSI value
\* the alert read is the last defined value of the charted RSI series (and is
\* undefined only if the chart has no defined value).
C5_AlertRsiIsLastChartedRsi ==
    (AlertsEvaluated /\ indicator = "RSI" /\ rsi_alert > 0) =>
        IF current_rsi.k = "num"
        THEN /\ ChartedDefined # {}
             /\ ind_chart[SetMax(ChartedDefined)].v = current_rsi
        ELSE ChartedDefined = {}

\* Fewer bars than the selected indicator needs.
InsufficientHistory ==
    \/ indicator = "RSI" /\ Len(hist.rows) < 14
    \/ indicator = "Moving Average" /\ Len(hist.rows) < ma_period
    \/ indicator = "MACD" /\ Len(hist.rows) < 26

\* C6: with fewer bars than the selected indicator needs, the indicator stage does
\* not raise: once the run is past it, the indicator chart was written, its derived
\* series is undefined everywhere, and the run reached the alert stage.
C6_InsufficientHistoryIsAllUndefined ==
    (ChartsDrawn /\ pc # "indicators" /\ hist.k = "df" /\ InsufficientHistory) =>
        /\ pc # "crashed" \/ AlertsEvaluated
        /\ Has("chart:indicator")
        /\ \A i \in 1..Len(ind_chart) : ind_chart[i].v.k # "num"

\* C7: when the fetch gave an absent or empty series (the provider raising
\* included), the run shows the 'no data' error and stops: nothing of the later
\* stages (latest close, charts, indicator, alerts, news) was computed or written,
\* and the run did not end in an exception.
C7_NoDataHaltsTheRun ==
    (hist.k = "none" \/ (hist.k = "df" /\ Len(hist.rows) = 0)) =>
        /\ pc = "stopped"
        /\ out = <<"overview", "fundamentals", "error:no data">>
        /\ last_close = 0
        /\ price_chart = <<>> /\ ind_chart = <<>>
        /\ current_rsi = NoCell /\ triggered = <<>>
        /\ resp = NoResp /\ headlines = <<>> /\ rows = <<>>

\* C7 witness: the provider gave nothing and the run stopped on the error.
C7_Witness ==
    /\ hist.k = "none" /\ pc = "stopped"
    /\ out[Len(out)] = "error:no data"

\* Two characters that are the same letter in either case, or the same character.
SameIgnoringCase(a, b) ==
    a = b \/ \E k \in 1..26 : {a, b} = {UPPERCASE[k], LOWERCASE[k]}
OccursIn(w, t) ==
    \E i \in 0..(Len(t) - Len(w)) : \A j \in 1..Len(w) : SameIgnoringCase(t[i + j], w[j])

\* C8: for every text (absent and empty included) the score is the number of the
\* 12 positive words occurring in it, ignoring case, minus the number of the 12
\* negative words occurring in it, each word counted once; the label is Positive
\* iff score > 0, Negative iff score < 0, Neutral iff score = 0; 'strong growth'
\* gives (Positive, 2), 'recall lawsuit' (Negative, -2), 'the stock moved'
\* (Neutral, 0).
C8_ScoreIsPositiveMinusNegativeHits ==
    s_pc = "scored" =>
        LET t == IF s_text.k = "none" THEN <<>> ELSE s_text.s
            p == Cardinality({w \in pos_words : OccursIn(w, t)})
            n == Cardinality({w \in neg_words : OccursIn(w, t)})
        IN  /\ Cardinality(pos_words) = 12 /\ Cardinality(neg_words) = 12
            /\ s_result.score = p - n
            /\ (s_result.label = "Positive") <=> (s_result.score > 0)
            /\ (s_result.label = "Negative") <=> (s_result.score < 0)
            /\ (s_result.label = "Neutral") <=> (s_result.score = 0)
            /\ t = <<"s", "t", "r", "o", "n", "g", " ", "g", "r", "o", "w", "t", "h">> => s_result = [label |-> "Positive", score |-> 2]
            /\ t = <<"r", "e", "c", "a", "l", "l", " ", "l", "a", "w", "s", "u", "i", "t">> => s_result = [label |-> "Negative", score |-> -2]
            /\ t = <<"t", "h", "e", " ", "s", "t", "o", "c", "k", " ", "m", "o", "v", "e", "d">> => s_result = [label |-> "Neutral", score |-> 0]

\* C8 witness: a text with upper-case hits and the word written twice in the
\* source: 'UPGRADE Loss' holds up and upgrade, and loss once: 2 - 1 = 1, Positive.
C8_Witness ==
    /\ s_pc = "scored"
    /\ s_text = Str(<<"U", "P", "G", "R", "A", "D", "E", " ", "L", "o", "s", "s">>)
    /\ s_result = [label |-> "Positive", score |-> 1]

\* The NewsAPI call failed (timeout, bad status, unparsable or malformed payload)
\* or gave no article.
NewsProviderFailed ==
    \/ resp.k \in {"timeout", "bad_status", "bad_json"}
    \/ /\ resp.k = "ok"
       /\ \/ Len(resp.articles) = 0
          \/ \E i \in 1..Len(resp.articles) :
                resp.articles[i].source = "null" \/ resp.articles[i].title.k = "none"

\* C9: when the news provider failed or gave no article, the run does not fail and
\* the displayed list is the fallback chain's: the first 5 (at most) items of the
\* company-info news when there are any, otherwise one synthetic item whose summary
\* is the first 800 characters of the company summary; the list is never empty.
C9_NewsFailureFallsBack ==
    (resp.k # "unset" /\ NewsProviderFailed) =>
        /\ pc # "crashed"
        /\ Len(headlines) > 0
        /\ IF Len(info.news) > 0
           THEN /\ Len(headlines) = Min(5, Len(info.news))
                /\ \A i \in 1..Len(headlines) :
                      /\ headlines[i].title = info.news[i].title
                      /\ headlines[i].desc = info.news[i].summary
           ELSE /\ Len(headlines) = 1
                /\ headlines[1].desc = SubSeq(summary, 1, Min(800, Len(summary)))

\* No two provider calls for one key are less than 3600 seconds apart.
CallsAnHourApart ==
    \A k \in Keys : \A i, j \in 1..Len(calls[k]) :
        i < j => calls[k][j] - calls[k][i] >= 3600

\* The entry of key k answers at the current time.
Unexpired(k) == cache[k].full /\ clock - cache[k].at < 3600

\* C10: the provider is called at most once per (ticker, start, end) key within
\* 3600 seconds.  A fetch whose key has an unexpired entry takes the entry's value
\* and calls nothing; a fetch whose key has no entry or an expired one calls the
\* provider once, for that key only, and stores what it got with the current
\* time; an entry changes only when it is empty or expired.
C10_AtMostOneProviderCallPerKeyPerTtl ==
    [][ /\ CallsAnHourApart'
        /\ \A k \in Keys :
              /\ calls'[k] # calls[k] =>
                    /\ pc = "fetch" /\ k = CacheKey /\ ~Unexpired(k)
                    /\ calls'[k] = Append(calls[k], clock)
              /\ cache'[k] # cache[k] => (pc = "fetch" /\ k = CacheKey /\ ~Unexpired(k))
        /\ (pc = "fetch" /\ Unexpired(CacheKey)) =>
              /\ hist' = cache[CacheKey].val
              /\ calls' = calls /\ cache' = cache
        /\ (pc = "fetch" /\ ~Unexpired(CacheKey)) =>
              /\ calls'[CacheKey] = Append(calls[CacheKey], clock)
              /\ cache'[CacheKey] = [full |-> TRUE, at |-> clock, val |-> hist']
      ]_vars

\* C10 witness: a run just took its series from an entry stored earlier, while some
\* key has been fetched from the provider twice (once after its entry expired).
C10_Witness ==
    /\ pc \in {"metrics", "stopped"}
    /\ cache[CacheKey].full /\ cache[CacheKey].at < clock
    /\ clock - cache[CacheKey].at < 3600
    /\ hist = cache[CacheKey].val
    /\ \E k \in Keys : Len(calls[k]) >= 2

\* Some alert is enabled, so the alert stage had something to check.
AlertsChecked == price_alert > 0 \/ rsi_alert > 0

\* C11: after the alert stage, 'no alerts' is reported exactly when some alert was
\* checked and none fired, so it is never reported when both thresholds are 0 and
\* nothing was checked; when an alert fired, 'no alerts' is not reported, one
\* warning is shown per message, and the price message comes before the RSI one.
C11_NoAlertsOnlyWhenCheckedAndNoneFired ==
    AlertsEvaluated =>
        /\ Has("success:no alerts") <=> (AlertsChecked /\ Len(triggered) = 0)
        /\ ~AlertsChecked => ~Has("success:no alerts")
        /\ Len(triggered) > 0 =>
              /\ ~Has("success:no alerts")
              /\ Cardinality({i \in 1..Len(out) : out[i] = "warning"}) = Len(triggered)
              /\ \A i \in PriceMsgs, j \in RsiMsgs : i < j

====
